---- MODULE Spec2Model ----
(***************************************************************************)
(* Model of the event ingestion and broadcast hub of relay_go (web.go):    *)
(* per-connection reader handlers (handleLaps), the ingestion coordinator  *)
(* (serviceTagChannel), the broadcast hub (serviceNotifyChannel), the      *)
(* per-connection notification handlers (handleNotify) and the shutdown    *)
(* sequence of StartWebServer.  Channels are Go channels: a buffered       *)
(* channel is a FIFO sequence with a capacity, an unbuffered channel is a  *)
(* rendezvous between a sender and a receiver that is in its select.       *)
(***************************************************************************)
EXTENDS Integers, Sequences, FiniteSets, TLC

VARIABLES
    rpc,        \* handleLaps: position of each reader handler
    rframe,     \* handleLaps: msg, the frame last read
    rtag,       \* handleLaps: tagID, the parsed identifier
    nframes,    \* number of frames read so far on all reader connections
    tags,       \* svr.tags
    tagsSent,   \* per reader, the number of completed sends on svr.tags
    cpc,        \* serviceTagChannel: position
    ctag,       \* serviceTagChannel: tagKey
    cnotif,     \* serviceTagChannel: notif
    laps,       \* the storage collaborator's lap counters
    incrCalls,  \* number of IncrementLaps invocations begun
    inIncr,     \* the callers currently inside IncrementLaps, one entry per call
    notifSent,  \* number of completed sends on svr.notify
    produced,   \* the notifications IncrementLaps returned, in order
    notify,     \* svr.notify
    hpc,        \* serviceNotifyChannel: position
    clients,    \* serviceNotifyChannel: clients (the membership set)
    hnotif,     \* serviceNotifyChannel: notif
    hrange,     \* serviceNotifyChannel: clients the range loop has not visited
    hcur,       \* serviceNotifyChannel: client (the range loop's variable)
    hmsg,       \* the message the hub's select received last, and clients before it
    processed,  \* the notifications the hub dequeued, with the membership then
    spc,        \* handleNotify: position of each notification handler
    send,       \* client.send of each notification handler's client
    snotif,     \* handleNotify: notif
    enq,        \* per client, the notifications ever enqueued on client.send,
                \* each with its position k in processed
    written,    \* per client, the notifications written to the transport
    mpc         \* StartWebServer: position

vars == <<rpc, rframe, rtag, nframes, tags, tagsSent, cpc, ctag, cnotif, laps,
          incrCalls, inIncr, notifSent, produced, notify, hpc, clients, hnotif,
          hrange,
          hcur, hmsg, processed, spc, send, snotif, enq, written, mpc>>

rvars == <<rpc, rframe, rtag, nframes>>
cvars == <<cpc, ctag, cnotif, laps, incrCalls, inIncr, notifSent, produced>>
hvars == <<hpc, clients, hnotif, hrange, hcur, hmsg, processed>>
svars == <<spc, snotif, written>>

----------------------------------------------------------------------------
(* Bounds of the model *)

\* frames read on all reader connections together
MaxFrames == 2
\* frames read on the one reader connection of the saturation scenario
DeepFrames == 12

\* notifications handed to the hub when it is driven on its own
MaxNotifs == 3

\* frames read on both reader connections of the interleaving scenario
FifoFrames == 4

Readers == {"r1", "r2"}
Sinks == {"s1", "s2"}

\* the frames a reader connection delivers
Frames == { <<"1", "0">>, <<"1", "1">>, <<"7">>, <<"a", "b", "c">> }

\* the tags the storage collaborator knows
KnownTags == {10, 11}

NoTag == -1
NoNotif == [tag |-> NoTag, laps |-> 0]
NoClient == "none"
NoFrame == <<"?">>
NoMsg == [type |-> "none", arg |-> NoClient, before |-> {}]

----------------------------------------------------------------------------
(* Program constants *)

TagsCap == 10
NotifyCap == 10
SendCap == 10

----------------------------------------------------------------------------
(* strconv.Atoi: optional sign, then one or more decimal digits *)

DigitVal == ("0" :> 0) @@ ("1" :> 1) @@ ("2" :> 2) @@ ("3" :> 3) @@ ("4" :> 4)
            @@ ("5" :> 5) @@ ("6" :> 6) @@ ("7" :> 7) @@ ("8" :> 8) @@ ("9" :> 9)

RECURSIVE ParseDigits(_, _)
ParseDigits(s, acc) ==
    IF s = <<>> THEN acc
    ELSE ParseDigits(Tail(s), acc * 10 + DigitVal[Head(s)])

Atoi(s) ==
    LET signed == s # <<>> /\ Head(s) \in {"+", "-"}
        body == IF signed THEN Tail(s) ELSE s
        bad == body = <<>> \/ \E i \in 1..Len(body) : body[i] \notin DOMAIN DigitVal
    IN  IF bad THEN [err |-> TRUE, val |-> 0]
        ELSE [err |-> FALSE,
              val |-> IF signed /\ Head(s) = "-" THEN 0 - ParseDigits(body, 0)
                      ELSE ParseDigits(body, 0)]

----------------------------------------------------------------------------
(* Channel operations *)

RECURSIVE SumOver(_, _)
SumOver(f, S) ==
    IF S = {} THEN 0
    ELSE LET x == CHOOSE y \in S : TRUE IN f[x] + SumOver(f, S \ {x})

\* the number of completed sends on svr.tags
TotalSent == SumOver(tagsSent, Readers)

\* a channel that hands out the newest value first
ChanSendLifo(ch, v) == <<v>> \o ch

ChanSend(ch, v) == Append(ch, v)
ChanCanSend(ch, cap) == Len(ch) < cap
ChanCanRecv(ch) == ch # <<>>

----------------------------------------------------------------------------
Init ==
    /\ rpc = [r \in Readers |-> "upgrade"]
    /\ rframe = [r \in Readers |-> NoFrame]
    /\ rtag = [r \in Readers |-> NoTag]
    /\ nframes = 0
    /\ tags = <<>>
    /\ tagsSent = [r \in Readers |-> 0]
    /\ cpc = "connect"
    /\ ctag = NoTag
    /\ cnotif = NoNotif
    /\ laps = [t \in KnownTags |-> 0]
    /\ incrCalls = 0
    /\ inIncr = <<>>
    /\ notifSent = 0
    /\ produced = <<>>
    /\ notify = <<>>
    /\ hpc = "select"
    /\ clients = {}
    /\ hnotif = NoNotif
    /\ hrange = {}
    /\ hcur = NoClient
    /\ hmsg = NoMsg
    /\ processed = <<>>
    /\ spc = [s \in Sinks |-> "upgrade"]
    /\ send = [s \in Sinks |-> <<>>]
    /\ snotif = [s \in Sinks |-> NoNotif]
    /\ enq = [s \in Sinks |-> <<>>]
    /\ written = [s \in Sinks |-> <<>>]
    /\ mpc = "serve"

----------------------------------------------------------------------------
(* handleLaps *)

\* upgrader.Upgrade succeeds: the handler enters its read loop
LapsUpgrade(r) ==
    /\ rpc[r] = "upgrade"
    /\ rpc' = [rpc EXCEPT ![r] = "read"]
    /\ UNCHANGED <<rframe, rtag, nframes, tags, tagsSent, cvars, notify, hvars,
                   svars, send, enq, mpc>>

\* upgrader.Upgrade fails: the handler returns
LapsUpgradeFail(r) ==
    /\ rpc[r] = "upgrade"
    /\ rpc' = [rpc EXCEPT ![r] = "closed"]
    /\ UNCHANGED <<rframe, rtag, nframes, tags, tagsSent, cvars, notify, hvars,
                   svars, send, enq, mpc>>

\* conn.ReadMessage returns frame f
LapsRead(r, f, limit) ==
    /\ rpc[r] = "read"
    /\ nframes < limit
    /\ nframes' = nframes + 1
    /\ rframe' = [rframe EXCEPT ![r] = f]
    /\ rpc' = [rpc EXCEPT ![r] = "parse"]
    /\ UNCHANGED <<rtag, tags, tagsSent, cvars, notify, hvars, svars, send,
                   enq, mpc>>

\* conn.ReadMessage fails: the loop breaks and the handler returns
LapsReadFail(r) ==
    /\ rpc[r] = "read"
    /\ rpc' = [rpc EXCEPT ![r] = "closed"]
    /\ UNCHANGED <<rframe, rtag, nframes, tags, tagsSent, cvars, notify, hvars,
                   svars, send, enq, mpc>>

\* handleLaps with the error of strconv.Atoi ignored: the value is sent
\* whatever the frame
LapsParseNoCheck(r) ==
    /\ rpc[r] = "parse"
    /\ rtag' = [rtag EXCEPT ![r] = Atoi(rframe[r]).val]
    /\ rpc' = [rpc EXCEPT ![r] = "send"]
    /\ rframe' = [rframe EXCEPT ![r] = NoFrame]
    /\ UNCHANGED <<nframes, tags, tagsSent, cvars, notify, hvars, svars, send,
                   enq, mpc>>

\* strconv.Atoi(string(msg)): on success go on to the send, otherwise log
\* and read the next frame
LapsParse(r) ==
    /\ rpc[r] = "parse"
    /\ LET res == Atoi(rframe[r])
       IN  IF ~res.err
           THEN /\ rtag' = [rtag EXCEPT ![r] = res.val]
                /\ rpc' = [rpc EXCEPT ![r] = "send"]
           ELSE /\ rtag' = rtag
                /\ rpc' = [rpc EXCEPT ![r] = "read"]
    /\ rframe' = [rframe EXCEPT ![r] = NoFrame]
    /\ UNCHANGED <<nframes, tags, tagsSent, cvars, notify, hvars, svars, send,
                   enq, mpc>>

\* handleLaps with a send that gives up when svr.tags is full: the
\* identifier is dropped and the next frame read
LapsSendOrDrop(r) ==
    /\ rpc[r] = "send"
    /\ IF ChanCanSend(tags, TagsCap)
       THEN /\ tags' = ChanSend(tags, rtag[r])
            /\ tagsSent' = [tagsSent EXCEPT ![r] = @ + 1]
       ELSE UNCHANGED <<tags, tagsSent>>
    /\ rtag' = [rtag EXCEPT ![r] = NoTag]
    /\ rpc' = [rpc EXCEPT ![r] = "read"]
    /\ UNCHANGED <<rframe, nframes, cvars, notify, hvars, svars, send, enq, mpc>>

\* svr.tags <- tagID
LapsSend(r) ==
    /\ rpc[r] = "send"
    /\ ChanCanSend(tags, TagsCap)
    /\ tags' = ChanSend(tags, rtag[r])
    /\ tagsSent' = [tagsSent EXCEPT ![r] = @ + 1]
    /\ rtag' = [rtag EXCEPT ![r] = NoTag]
    /\ rpc' = [rpc EXCEPT ![r] = "read"]
    /\ UNCHANGED <<rframe, nframes, cvars, notify, hvars, svars, send, enq, mpc>>

----------------------------------------------------------------------------
(* The storage collaborator *)

\* ds.IncrementLaps(tagKey): resolves the tag, increments its lap counter and
\* returns the snapshot; fails for an unknown tag
IncrementLapsOk(tagKey) == tagKey \in KnownTags

IncrementLapsNotif(tagKey) == [tag |-> tagKey, laps |-> laps[tagKey] + 1]

----------------------------------------------------------------------------
(* serviceTagChannel *)

\* ConnectToDB succeeds: the task enters its select loop
TagConnect ==
    /\ cpc = "connect"
    /\ cpc' = "select"
    /\ UNCHANGED <<rvars, tags, tagsSent, ctag, cnotif, laps, incrCalls, inIncr,
                   notifSent, produced, notify, hvars, svars, send, enq, mpc>>

\* ConnectToDB fails: the task logs and returns
TagConnectFail ==
    /\ cpc = "connect"
    /\ cpc' = "aborted"
    /\ UNCHANGED <<rvars, tags, tagsSent, ctag, cnotif, laps, incrCalls, inIncr,
                   notifSent, produced, notify, hvars, svars, send, enq, mpc>>

\* serviceTagChannel taking the identifier sent last instead of the one at
\* the head of svr.tags
TagRecvNewest ==
    /\ cpc = "select"
    /\ ChanCanRecv(tags)
    /\ ctag' = tags[Len(tags)]
    /\ tags' = SubSeq(tags, 1, Len(tags) - 1)
    /\ incrCalls' = incrCalls + 1
    /\ inIncr' = Append(inIncr, "serviceTagChannel")
    /\ cpc' = "incr"
    /\ UNCHANGED <<rvars, tagsSent, cnotif, laps, notifSent, produced, notify,
                   hvars, svars, send, enq, mpc>>

\* serviceTagChannel starting the increment in a goroutine of its own and
\* going back to its select
TagRecvAsync ==
    /\ cpc = "select"
    /\ ChanCanRecv(tags)
    /\ ctag' = Head(tags)
    /\ tags' = Tail(tags)
    /\ incrCalls' = incrCalls + 1
    /\ inIncr' = Append(inIncr, "serviceTagChannel")
    /\ cpc' = "select"
    /\ UNCHANGED <<rvars, tagsSent, cnotif, laps, notifSent, produced, notify, hvars,
                   svars, send, enq, mpc>>

\* case tagKey := <-svr.tags, and the call of ds.IncrementLaps(tagKey)
TagRecv ==
    /\ cpc = "select"
    /\ ChanCanRecv(tags)
    /\ ctag' = Head(tags)
    /\ tags' = Tail(tags)
    /\ incrCalls' = incrCalls + 1
    /\ inIncr' = Append(inIncr, "serviceTagChannel")
    /\ cpc' = "incr"
    /\ UNCHANGED <<rvars, tagsSent, cnotif, laps, notifSent, produced, notify, hvars,
                   svars, send, enq, mpc>>

\* ds.IncrementLaps returns a Notification and no error
TagIncrOk ==
    /\ cpc = "incr"
    /\ IncrementLapsOk(ctag)
    /\ cnotif' = IncrementLapsNotif(ctag)
    /\ laps' = [laps EXCEPT ![ctag] = @ + 1]
    /\ inIncr' = Tail(inIncr)
    /\ ctag' = NoTag
    /\ cpc' = "notify"
    /\ produced' = Append(produced, IncrementLapsNotif(ctag))
    /\ UNCHANGED <<rvars, tags, tagsSent, incrCalls, notifSent, notify, hvars,
                   svars, send, enq, mpc>>

\* serviceTagChannel with the error of ds.IncrementLaps ignored: the zero
\* Notification is sent on
TagIncrFailSend ==
    /\ cpc = "incr"
    /\ inIncr' = Tail(inIncr)
    /\ ctag' = NoTag
    /\ cpc' = "notify"
    /\ UNCHANGED <<rvars, tags, tagsSent, cnotif, laps, incrCalls, notifSent, produced,
                   notify, hvars, svars, send, enq, mpc>>

\* ds.IncrementLaps returns an error (unknown tag, storage error): the
\* event is dropped
TagIncrFail ==
    /\ cpc = "incr"
    /\ inIncr' = Tail(inIncr)
    /\ ctag' = NoTag
    /\ cpc' = "select"
    /\ UNCHANGED <<rvars, tags, tagsSent, cnotif, laps, incrCalls, notifSent, produced,
                   notify, hvars, svars, send, enq, mpc>>

\* serviceTagChannel sending the Notification and not leaving the send
TagNotifyAgain ==
    /\ cpc = "notify"
    /\ ChanCanSend(notify, NotifyCap)
    /\ notify' = ChanSend(notify, cnotif)
    /\ notifSent' = notifSent + 1
    /\ UNCHANGED <<rvars, tags, tagsSent, cpc, ctag, cnotif, laps, incrCalls,
                   inIncr, produced, hvars, svars, send, enq, mpc>>

\* svr.notify <- notif
TagNotify ==
    /\ cpc = "notify"
    /\ ChanCanSend(notify, NotifyCap)
    /\ notify' = ChanSend(notify, cnotif)
    /\ notifSent' = notifSent + 1
    /\ cnotif' = NoNotif
    /\ cpc' = "select"
    /\ UNCHANGED <<rvars, tags, tagsSent, ctag, laps, incrCalls, inIncr, produced,
                   hvars,
                   svars, send, enq, mpc>>

\* case <-svr.quitTags, the rendezvous with svr.quitTags <- true of
\* StartWebServer: the task returns, StartWebServer goes on to quitNotify
TagQuit ==
    /\ cpc = "select"
    /\ mpc = "quitTags"
    /\ cpc' = "exited"
    /\ mpc' = "quitNotify"
    /\ UNCHANGED <<rvars, tags, tagsSent, ctag, cnotif, laps, incrCalls, inIncr,
                   notifSent, produced, notify, hvars, svars, send, enq>>

----------------------------------------------------------------------------
(* serviceNotifyChannel *)

\* an insert that takes a key already present for a request to leave
HubInsertToggle(c, r) == IF r \in c THEN c \ {r} ELSE c \cup {r}

\* clients[r] = true
HubInsert(c, r) == c \cup {r}

\* a delete that resets the map when the key is absent
HubDeleteReset(c, ur) == IF ur \in c THEN c \ {ur} ELSE {}

\* delete(clients, ur)
HubDelete(c, ur) == c \ {ur}

\* case r := <-svr.register, as the hub's select takes it
HubRegister(r) ==
    /\ hpc = "select"
    /\ clients' = HubInsert(clients, r)
    /\ hmsg' = [type |-> "register", arg |-> r, before |-> clients]
    /\ UNCHANGED <<hpc, hnotif, hrange, hcur, processed>>

\* case ur := <-svr.unregister, as the hub's select takes it
HubUnregister(ur) ==
    /\ hpc = "select"
    /\ clients' = HubDelete(clients, ur)
    /\ hmsg' = [type |-> "unregister", arg |-> ur, before |-> clients]
    /\ UNCHANGED <<hpc, hnotif, hrange, hcur, processed>>

\* a range loop that sends to every handler that has a client, registered
\* or not yet
HubNotifyAll ==
    /\ hpc = "select"
    /\ ChanCanRecv(notify)
    /\ hnotif' = Head(notify)
    /\ notify' = Tail(notify)
    /\ processed' = Append(processed, [n |-> Head(notify), members |-> clients])
    /\ hmsg' = [type |-> "notify", arg |-> NoClient, before |-> clients]
    /\ LET all == clients \cup {s \in Sinks : spc[s] = "register"}
       IN  IF all = {}
           THEN /\ hpc' = "select"
                /\ hrange' = {}
                /\ hcur' = NoClient
           ELSE /\ hpc' = "fanout"
                /\ \E c \in all :
                     /\ hcur' = c
                     /\ hrange' = all \ {c}
    /\ UNCHANGED <<rvars, tags, tagsSent, cvars, clients, svars, send, enq, mpc>>

\* case notif := <-svr.notify, and the range loop's first client (the
\* iteration order of a map is not specified)
HubNotify ==
    /\ hpc = "select"
    /\ ChanCanRecv(notify)
    /\ hnotif' = Head(notify)
    /\ notify' = Tail(notify)
    /\ processed' = Append(processed, [n |-> Head(notify), members |-> clients])
    /\ hmsg' = [type |-> "notify", arg |-> NoClient, before |-> clients]
    /\ IF clients = {}
       THEN /\ hpc' = "select"
            /\ hrange' = {}
            /\ hcur' = NoClient
       ELSE /\ hpc' = "fanout"
            /\ \E c \in clients :
                 /\ hcur' = c
                 /\ hrange' = clients \ {c}
    /\ UNCHANGED <<rvars, tags, tagsSent, cvars, clients, svars, send, enq, mpc>>

\* client.send <- notif for the range loop's client, then the next client
\* of the range or, with none left, back to the select
HubFanout ==
    /\ hpc = "fanout"
    /\ ChanCanSend(send[hcur], SendCap)
    /\ send' = [send EXCEPT ![hcur] = ChanSend(@, hnotif)]
    /\ enq' = [enq EXCEPT ![hcur] = Append(@, [n |-> hnotif, k |-> Len(processed)])]
    /\ IF hrange = {}
       THEN /\ hpc' = "select"
            /\ hcur' = NoClient
            /\ hrange' = {}
            /\ hnotif' = NoNotif
       ELSE /\ hpc' = "fanout"
            /\ hnotif' = hnotif
            /\ \E c \in hrange :
                 /\ hcur' = c
                 /\ hrange' = hrange \ {c}
    /\ UNCHANGED <<rvars, tags, tagsSent, cvars, notify, clients, hmsg,
                   processed, svars, mpc>>

\* a hub that drops every client when it quits
HubQuitClear ==
    /\ hpc = "select"
    /\ mpc = "quitNotify"
    /\ hpc' = "exited"
    /\ mpc' = "sleep"
    /\ clients' = {}
    /\ hmsg' = [type |-> "quit", arg |-> NoClient, before |-> clients]
    /\ UNCHANGED <<rvars, tags, tagsSent, cvars, notify, hnotif, hrange, hcur,
                   processed, svars, send, enq>>

\* case <-svr.quitNotify, the rendezvous with svr.quitNotify <- true of
\* StartWebServer: the task returns, StartWebServer goes on to its sleep
HubQuit ==
    /\ hpc = "select"
    /\ mpc = "quitNotify"
    /\ hpc' = "exited"
    /\ mpc' = "sleep"
    /\ hmsg' = [type |-> "quit", arg |-> NoClient, before |-> clients]
    /\ UNCHANGED <<rvars, tags, tagsSent, cvars, notify, clients, hnotif,
                   hrange, hcur, processed, svars, send, enq>>

----------------------------------------------------------------------------
(* handleNotify *)

\* upgrader.Upgrade succeeds and the client is made with its send channel
NotifyUpgrade(s) ==
    /\ spc[s] = "upgrade"
    /\ spc' = [spc EXCEPT ![s] = "register"]
    /\ UNCHANGED <<rvars, tags, tagsSent, cvars, notify, hvars, send, snotif,
                   enq, written, mpc>>

\* upgrader.Upgrade fails: the handler returns
NotifyUpgradeFail(s) ==
    /\ spc[s] = "upgrade"
    /\ spc' = [spc EXCEPT ![s] = "closed"]
    /\ UNCHANGED <<rvars, tags, tagsSent, cvars, notify, hvars, send, snotif,
                   enq, written, mpc>>

\* svr.register <- client, the rendezvous with the hub's select
NotifyRegister(s) ==
    /\ spc[s] = "register"
    /\ HubRegister(s)
    /\ spc' = [spc EXCEPT ![s] = "recv"]
    /\ UNCHANGED <<rvars, tags, tagsSent, cvars, notify, send, snotif, enq,
                   written, mpc>>

\* case notif := <-client.send
NotifyRecv(s) ==
    /\ spc[s] = "recv"
    /\ ChanCanRecv(send[s])
    /\ snotif' = [snotif EXCEPT ![s] = Head(send[s])]
    /\ send' = [send EXCEPT ![s] = Tail(@)]
    /\ spc' = [spc EXCEPT ![s] = "write"]
    /\ UNCHANGED <<rvars, tags, tagsSent, cvars, notify, hvars, enq, written, mpc>>

\* conn.WriteJSON(notif) succeeds
NotifyWrite(s) ==
    /\ spc[s] = "write"
    /\ written' = [written EXCEPT ![s] = Append(@, snotif[s])]
    /\ snotif' = [snotif EXCEPT ![s] = NoNotif]
    /\ spc' = [spc EXCEPT ![s] = "recv"]
    /\ UNCHANGED <<rvars, tags, tagsSent, cvars, notify, hvars, send, enq, mpc>>

\* conn.WriteJSON(notif) fails: the handler goes on to unregister
NotifyWriteFail(s) ==
    /\ spc[s] = "write"
    /\ spc' = [spc EXCEPT ![s] = "unregister"]
    /\ UNCHANGED <<rvars, tags, tagsSent, cvars, notify, hvars, send, snotif,
                   enq, written, mpc>>

\* handleNotify without the return after its Unregister send: the handler
\* goes round its loop again
NotifyUnregisterLoop(s) ==
    /\ spc[s] = "unregister"
    /\ HubUnregister(s)
    /\ spc' = [spc EXCEPT ![s] = "recv"]
    /\ snotif' = [snotif EXCEPT ![s] = NoNotif]
    /\ UNCHANGED <<rvars, tags, tagsSent, cvars, notify, send, enq, written, mpc>>

\* svr.unregister <- client, the rendezvous with the hub's select; the
\* handler returns
NotifyUnregister(s) ==
    /\ spc[s] = "unregister"
    /\ HubUnregister(s)
    /\ spc' = [spc EXCEPT ![s] = "done"]
    /\ UNCHANGED <<rvars, tags, tagsSent, cvars, notify, send, snotif, enq,
                   written, mpc>>

----------------------------------------------------------------------------
(* StartWebServer *)

\* StartWebServer with a buffered svr.quitTags: the send completes with no
\* receiver and the next send is reached at once
ServeReturnBuffered ==
    /\ mpc = "serve"
    /\ mpc' = "quitNotify"
    /\ UNCHANGED <<rvars, tags, tagsSent, cvars, notify, hvars, svars, send, enq>>

\* httpsvr.ListenAndServe returns (after the interrupt's Shutdown, or on a
\* listen error); hijacked websocket connections keep running
ServeReturn ==
    /\ mpc = "serve"
    /\ mpc' = "quitTags"
    /\ UNCHANGED <<rvars, tags, tagsSent, cvars, notify, hvars, svars, send, enq>>

\* time.Sleep(time.Second) elapses and StartWebServer returns
SleepDone ==
    /\ mpc = "sleep"
    /\ mpc' = "done"
    /\ UNCHANGED <<rvars, tags, tagsSent, cvars, notify, hvars, svars, send, enq>>

----------------------------------------------------------------------------
Next ==
    \/ \E r \in Readers : LapsUpgrade(r)
    \/ \E r \in Readers : LapsUpgradeFail(r)
    \/ \E r \in Readers : \E f \in Frames : LapsRead(r, f, MaxFrames)
    \/ \E r \in Readers : LapsReadFail(r)
    \/ \E r \in Readers : LapsParse(r)
    \/ \E r \in Readers : LapsSend(r)
    \/ TagConnect
    \/ TagConnectFail
    \/ TagRecv
    \/ TagIncrOk
    \/ TagIncrFail
    \/ TagNotify
    \/ TagQuit
    \/ HubNotify
    \/ HubFanout
    \/ HubQuit
    \/ \E s \in Sinks : NotifyUpgrade(s)
    \/ \E s \in Sinks : NotifyUpgradeFail(s)
    \/ \E s \in Sinks : NotifyRegister(s)
    \/ \E s \in Sinks : NotifyRecv(s)
    \/ \E s \in Sinks : NotifyWrite(s)
    \/ \E s \in Sinks : NotifyWriteFail(s)
    \/ \E s \in Sinks : NotifyUnregister(s)
    \/ ServeReturn
    \/ SleepDone

Spec == Init /\ [][Next]_vars

----------------------------------------------------------------------------
(* Scheduling.  Goroutines are scheduled fairly, so a task that can take a *)
(* step takes it (WF); a select chooses at random among its ready cases,   *)
(* so a case that is ready again and again is taken (SF).  Nothing is      *)
(* assumed of the environment: frames arriving, connections failing, the   *)
(* interrupt.                                                              *)

Fairness ==
    /\ \A r \in Readers : WF_vars(LapsParse(r)) /\ WF_vars(LapsSend(r))
    /\ WF_vars(TagConnect \/ TagConnectFail)
    /\ WF_vars(TagRecv)
    /\ WF_vars(TagIncrOk \/ TagIncrFail)
    /\ WF_vars(TagNotify)
    /\ SF_vars(TagQuit)
    /\ WF_vars(HubNotify)
    /\ WF_vars(HubFanout)
    /\ SF_vars(HubQuit)
    /\ \A s \in Sinks :
         /\ SF_vars(NotifyRegister(s))
         /\ WF_vars(NotifyRecv(s))
         /\ WF_vars(NotifyWrite(s) \/ NotifyWriteFail(s))
         /\ SF_vars(NotifyUnregister(s))
    /\ WF_vars(SleepDone)

FairSpec == Init /\ [][Next]_vars /\ Fairness

----------------------------------------------------------------------------
(* The saturation scenario: one reader connection delivering well-formed   *)
(* frames of a known tag, one display connection, a storage collaborator   *)
(* that does not fail and no interrupt; enough frames to fill a display's  *)
(* delivery queue.                                                         *)

SatReader == "r1"
SatSink == "s1"
SatFrame == <<"1", "0">>

SatNext ==
    \/ LapsUpgrade(SatReader)
    \/ LapsRead(SatReader, SatFrame, DeepFrames)
    \/ LapsParse(SatReader)
    \/ LapsSend(SatReader)
    \/ TagConnect
    \/ TagRecv
    \/ TagIncrOk
    \/ TagNotify
    \/ HubNotify
    \/ HubFanout
    \/ NotifyUpgrade(SatSink)
    \/ NotifyRegister(SatSink)
    \/ NotifyRecv(SatSink)
    \/ NotifyWrite(SatSink)
    \/ NotifyWriteFail(SatSink)
    \/ NotifyUnregister(SatSink)

SatSpec == Init /\ [][SatNext]_vars /\ Fairness

----------------------------------------------------------------------------
(* The hub on its own: serviceNotifyChannel driven by any sequence of      *)
(* Register, Unregister and Notification messages, for any client and in   *)
(* any order, its clients' queues being drained at any rate.               *)

\* some sender's svr.register <- client is received by the hub
EnvRegister(s) ==
    /\ HubRegister(s)
    /\ UNCHANGED <<rvars, tags, tagsSent, cvars, notify, svars, send, enq, mpc>>

\* some sender's svr.unregister <- client is received by the hub
EnvUnregister(s) ==
    /\ HubUnregister(s)
    /\ UNCHANGED <<rvars, tags, tagsSent, cvars, notify, svars, send, enq, mpc>>

\* some sender's svr.notify <- notif
EnvNotification(t) ==
    /\ notifSent < MaxNotifs
    /\ ChanCanSend(notify, NotifyCap)
    /\ notify' = ChanSend(notify, [tag |-> t, laps |-> notifSent + 1])
    /\ notifSent' = notifSent + 1
    /\ UNCHANGED <<rvars, tags, tagsSent, cpc, ctag, cnotif, laps, incrCalls,
                   inIncr, produced, hvars, svars, send, enq, mpc>>

\* some receiver's <-client.send
EnvDrain(s) ==
    /\ ChanCanRecv(send[s])
    /\ send' = [send EXCEPT ![s] = Tail(@)]
    /\ UNCHANGED <<rvars, tags, tagsSent, cvars, notify, hvars, svars, enq, mpc>>

HubNext ==
    \/ \E s \in Sinks : EnvRegister(s)
    \/ \E s \in Sinks : EnvUnregister(s)
    \/ \E t \in KnownTags : EnvNotification(t)
    \/ \E s \in Sinks : EnvDrain(s)
    \/ HubNotify
    \/ HubFanout

HubSpec == Init /\ [][HubNext]_vars

----------------------------------------------------------------------------
(* The interleaving scenario: two reader connections sending at the same   *)
(* time.  The frames are chosen so that an identifier tells which          *)
(* connection submitted it and when: one connection delivers the frame of  *)
(* tag 10 and then the frame of tag 11, the other delivers frames of a tag *)
(* the store does not know.  No interrupt, no connection failure.          *)

FifoReader == "r1"
FifoFirst == <<"1", "0">>
FifoSecond == <<"1", "1">>
FifoOther == <<"7">>

\* the frame conn.ReadMessage returns next on reader connection r
FifoFrame(r) ==
    IF r # FifoReader THEN FifoOther
    ELSE IF tagsSent[r] = 0 THEN FifoFirst ELSE FifoSecond

\* conn.ReadMessage on reader connection r; the connection of FifoReader
\* delivers two frames in all
FifoRead(r) ==
    /\ r = FifoReader => tagsSent[r] < 2
    /\ LapsRead(r, FifoFrame(r), FifoFrames)

FifoNext ==
    \/ \E r \in Readers : LapsUpgrade(r)
    \/ \E r \in Readers : FifoRead(r)
    \/ \E r \in Readers : LapsParse(r)
    \/ \E r \in Readers : LapsSend(r)
    \/ TagConnect
    \/ TagRecv
    \/ TagIncrOk
    \/ TagIncrFail
    \/ TagNotify
    \/ HubNotify
    \/ HubFanout
    \/ \E s \in Sinks : NotifyUpgrade(s)
    \/ \E s \in Sinks : NotifyRegister(s)
    \/ \E s \in Sinks : NotifyRecv(s)
    \/ \E s \in Sinks : NotifyWrite(s)

FifoSpec == Init /\ [][FifoNext]_vars

----------------------------------------------------------------------------
(* Properties *)

\* position of notification n in the hub's processing sequence
Pos(n) == CHOOSE j \in 1..Len(processed) : processed[j].n = n

\* C1 - fan-out exclusion: a notification is enqueued on a client's send
\* channel only if that client was in the membership set when the hub dequeued
\* the notification, and at most once per client
FanOutExclusion ==
    \A s \in Sinks :
        /\ \A i \in 1..Len(enq[s]) :
             /\ enq[s][i].k \in 1..Len(processed)
             /\ processed[enq[s][i].k].n = enq[s][i].n
             /\ s \in processed[enq[s][i].k].members
        /\ \A i, j \in 1..Len(enq[s]) : i # j => enq[s][i].k # enq[s][j].k

\* a notification went to s1 alone, s2 registered only later and has nothing
C1Witness ==
    /\ \E j \in 1..Len(processed) : processed[j].members = {"s1"}
    /\ Len(enq["s1"]) >= 1
    /\ "s2" \in clients
    /\ enq["s2"] = <<>>
    /\ hpc = "select"

\* C3 - order preservation: the notifications in a client's delivery queue,
\* and those its handler wrote to the transport, are in the order in which the
\* hub processed them, the written ones before the queued ones
InOrder(q) ==
    /\ \A i \in 1..Len(q) : \E j \in 1..Len(processed) : processed[j].n = q[i]
    /\ \A i, j \in 1..Len(q) : i < j => Pos(q[i]) < Pos(q[j])

OrderPreserved ==
    \A s \in Sinks :
        InOrder(written[s]
                \o (IF snotif[s] = NoNotif THEN <<>> ELSE <<snotif[s]>>)
                \o send[s])

\* a client has two notifications written to its transport, another has two
\* queued
C3Witness ==
    /\ Len(written["s1"]) = 2
    /\ Len(send["s2"]) = 2

\* C4 - serialized increments: IncrementLaps is invoked by serviceTagChannel
\* alone, at most one invocation is in progress, and there is one invocation
\* for every identifier taken from svr.tags, so as many as were sent once
\* svr.tags is empty
SerializedIncrements ==
    /\ Len(inIncr) <= 1
    /\ \A i \in 1..Len(inIncr) : inIncr[i] = "serviceTagChannel"
    /\ incrCalls = TotalSent - Len(tags)
    /\ Len(inIncr) = (IF cpc = "incr" THEN 1 ELSE 0)

\* both readers have sent an identifier and both were consumed
C4Witness ==
    /\ tagsSent["r1"] >= 1
    /\ tagsSent["r2"] >= 1
    /\ tags = <<>>
    /\ incrCalls = 2
    /\ inIncr = <<>>

\* C9 - malformed frame is ignored: the step of a reader handler whose frame
\* does not parse sends nothing, changes no channel, counter, membership or
\* queue, and leaves the handler reading the next frame
MalformedIgnored ==
    [][\A r \in Readers :
          (rpc[r] = "parse" /\ Atoi(rframe[r]).err /\ rpc'[r] # "parse")
          => /\ rpc'[r] = "read"
             /\ UNCHANGED <<tags, tagsSent, cvars, notify, hvars, send, enq,
                            svars, mpc>>]_vars

\* reader r1 alone has read two frames, one was ignored and the other, read
\* on the same connection, was sent
C9Witness ==
    /\ rpc["r2"] = "upgrade"
    /\ rpc["r1"] = "read"
    /\ nframes = 2
    /\ tagsSent["r1"] = 1

\* C10 - idempotent unregister: after the hub has processed Unregister for a
\* client that was not in the membership set, the membership set is what it
\* was, every other client is still registered and the hub is in its select
IdempotentUnregister ==
    (hmsg.type = "unregister" /\ hmsg.arg \notin hmsg.before)
    => /\ clients = hmsg.before
       /\ hpc = "select"

\* Unregister of the absent s1 was processed while s2 is registered and has
\* been delivered a notification
C10Witness ==
    /\ hmsg.type = "unregister"
    /\ hmsg.arg = "s1"
    /\ "s1" \notin hmsg.before
    /\ clients = {"s2"}
    /\ Len(enq["s2"]) >= 1

\* the hub's range loop still has to send the current notification to s
Pending(s) == hpc = "fanout" /\ (s = hcur \/ s \in hrange)

\* C2 - fan-out completeness: a client that was in the membership set when
\* the hub dequeued a notification eventually has it in its delivery queue
FanOutComplete ==
    \A s \in Sinks : Pending(s) ~> ~Pending(s)

\* C5 - removal after write failure: a handler whose transport write failed
\* eventually completes its Unregister send and returns, and its client is
\* then out of the membership set
RemovedAfterWriteFailure ==
    \A s \in Sinks :
        (spc[s] = "unregister") ~> (spc[s] = "done" /\ s \notin clients)

\* C6 - no starvation by a slow subscriber: a hub that finds a client's
\* delivery queue full during a fan-out eventually gets back to its select
NoStarvation ==
    (hpc = "fanout" /\ Len(send[hcur]) = SendCap) ~> (hpc = "select")

\* C7 - no event loss under shutdown: when serviceTagChannel returns, every
\* identifier sent on svr.tags has had its IncrementLaps invocation
NoLossAtShutdown ==
    [][(cpc # "exited" /\ cpc' = "exited") => incrCalls' = TotalSent']_vars

\* C8 - shutdown termination: once StartWebServer is at svr.quitTags <- true,
\* both quit sends complete, both tasks return and StartWebServer finishes
ShutdownTerminates ==
    (mpc = "quitTags") ~> (mpc = "done" /\ cpc = "exited" /\ hpc = "exited")

\* the number of IncrementLaps calls that returned a Notification
Successes == Len(produced)

\* C11 - failed increment is dropped: the step in which IncrementLaps returns
\* without a Notification (always so for an unknown tag) sends nothing on
\* svr.notify, puts nothing back on svr.tags, invokes nothing again and leaves
\* serviceTagChannel at its select, ready for the next identifier
FailedIncrementDropped ==
    [][(cpc = "incr" /\ cpc' # "incr")
       => /\ ctag \notin KnownTags => produced' = produced
          /\ produced' = produced
             => /\ cpc' = "select"
                /\ ctag' = NoTag
                /\ cnotif' = NoNotif
                /\ UNCHANGED <<tags, notify, notifSent, incrCalls, laps>>]_vars

\* two invocations have failed one after the other and the task is at its
\* select again
C11Witness ==
    /\ incrCalls = 2
    /\ produced = <<>>
    /\ notifSent = 0
    /\ notify = <<>>
    /\ cpc = "select"

\* the notifications of the sequence q of records with a field n
Notifs(q) == [i \in 1..Len(q) |-> q[i].n]

\* C12 - one notification per successful increment: the sends on svr.notify
\* never outnumber the successful IncrementLaps calls, one call gives one
\* send, and what is on svr.notify, in the hub, in the delivery queues and
\* handed to the transport write is a value IncrementLaps returned
OnePerSuccess ==
    /\ notifSent <= Successes
    /\ notifSent = Successes - (IF cpc = "notify" THEN 1 ELSE 0)
    /\ \A i, j \in 1..Len(produced) : i # j => produced[i] # produced[j]
    /\ cpc = "notify" => cnotif = produced[Len(produced)]
    /\ Notifs(processed) \o notify = SubSeq(produced, 1, notifSent)
    /\ \A s \in Sinks :
         /\ \A i \in 1..Len(enq[s]) : enq[s][i].n = produced[enq[s][i].k]
         /\ \A i \in 1..Len(send[s]) :
              send[s][i] = enq[s][Len(enq[s]) - Len(send[s]) + i].n
         /\ snotif[s] # NoNotif
              => snotif[s] = enq[s][Len(enq[s]) - Len(send[s])].n
         /\ \A i \in 1..Len(written[s]) : written[s][i] = enq[s][i].n
    /\ hpc = "fanout" => hnotif = produced[Len(processed)]

\* two increments succeeded, both notifications were sent and a client
\* has both written to its transport
C12Witness ==
    /\ Successes = 2
    /\ notifSent = 2
    /\ Len(written["s1"]) = 2

\* the number of notifications whose fan-out the hub has completed
FannedOut == Len(processed) - (IF hpc = "fanout" THEN 1 ELSE 0)

\* C13 - end-to-end broadcast: every notification IncrementLaps returned is
\* eventually dequeued by the hub and its fan-out completed (the hub takes
\* them in the order they were returned: see OnePerSuccess)
EndToEndBroadcast ==
    (Successes > FannedOut) ~> (Successes = FannedOut)

LifeCycleMoves ==
    { <<"upgrade", "register">>, <<"upgrade", "closed">>,
      <<"register", "recv">>, <<"recv", "write">>, <<"write", "recv">>,
      <<"write", "unregister">>, <<"unregister", "done">> }

\* C15 - subscriber life cycle: a handler moves unregistered -> registered ->
\* delivering* -> unregistered and stops; its client enters the membership
\* set only in its one Register send and leaves it only in its one Unregister
\* send, which comes after; a handler that has not registered or has returned
\* has no client in the set, and one that is unregistering or has returned
\* writes nothing more to the transport
SubscriberLifeCycle ==
    [][\A s \in Sinks :
          /\ spc'[s] # spc[s] => <<spc[s], spc'[s]>> \in LifeCycleMoves
          /\ (s \notin clients /\ s \in clients')
             => spc[s] = "register" /\ spc'[s] = "recv"
          /\ (s \in clients /\ s \notin clients')
             => spc[s] = "unregister" /\ spc'[s] = "done"
          /\ (spc[s] = "register" /\ spc'[s] = "recv") => s \in clients'
          /\ spc'[s] \in {"upgrade", "register", "closed", "done"}
             => s \notin clients'
          /\ spc[s] \in {"unregister", "done", "closed"}
             => written'[s] = written[s]]_vars

\* s1 registered, was delivered and wrote a notification, failed a later
\* write, unregistered and returned, leaving the rest of its queue unwritten
C15Witness ==
    /\ spc["s1"] = "done"
    /\ "s1" \notin clients
    /\ Len(written["s1"]) = 1
    /\ Len(enq["s1"]) = 2

\* the reader handlers that hold a frame or an identifier not yet sent
Holding == {r \in Readers : rpc[r] \in {"parse", "send"}}

\* C16 - backpressure without loss: svr.tags, svr.notify and every
\* client.send hold at most their capacity, and of the well-formed frames read
\* each one's identifier is either sent on svr.tags or still held by its
\* handler, which reads no further frame before it is sent
BackpressureNoLoss ==
    /\ Len(tags) <= TagsCap
    /\ Len(notify) <= NotifyCap
    /\ \A s \in Sinks : Len(send[s]) <= SendCap
    /\ \A r \in Readers : rpc[r] = "send" <=> rtag[r] # NoTag
    /\ \A r \in Readers : rpc[r] = "parse" <=> rframe[r] # NoFrame
    /\ nframes = TotalSent + Cardinality(Holding)

\* svr.tags is full and the reader handler is suspended on its send, holding
\* the next identifier
C16Witness ==
    /\ Len(tags) = TagsCap
    /\ rpc["r1"] = "send"
    /\ rtag["r1"] = 10
    /\ nframes = TagsCap + 1

\* the number of times the k-th notification the hub dequeued was enqueued
\* on the send channel of s
TimesEnqueued(s, k) == Cardinality({i \in 1..Len(enq[s]) : enq[s][i].k = k})

\* C17 - idempotent register: after the hub has processed Register for a
\* client that was already in the membership set, the set is what it was,
\* with that client in it and every other client as before; and every
\* notification whose fan-out is over was enqueued exactly once to each
\* client that was a member when it was dequeued, never twice to anyone
IdempotentRegister ==
    /\ (hmsg.type = "register" /\ hmsg.arg \in hmsg.before)
       => /\ clients = hmsg.before
          /\ hpc = "select"
    /\ \A s \in Sinks : \A k \in 1..Len(processed) :
         /\ TimesEnqueued(s, k) <= 1
         /\ (k <= FannedOut /\ s \in processed[k].members)
            => TimesEnqueued(s, k) = 1
         /\ s \notin processed[k].members => TimesEnqueued(s, k) = 0

\* s1 was delivered a notification, then Register of s1 was processed again
\* while s2 is a member too
C17Witness ==
    /\ hmsg.type = "register"
    /\ hmsg.arg = "s1"
    /\ hmsg.before = {"s1", "s2"}
    /\ clients = {"s1", "s2"}
    /\ Len(processed) = 2
    /\ processed[2].members = {"s1", "s2"}
    /\ FannedOut = 2

\* the handler of s has completed its Register send and the hub has not
\* yet received its Unregister
Registered(s) == spc[s] \in {"recv", "write", "unregister"}

\* a notification the hub dequeued while s was registered is not in the
\* delivery queue of s, nor has it been
Missed(s) ==
    /\ Registered(s)
    /\ \E k \in 1..Len(processed) :
         s \in processed[k].members /\ TimesEnqueued(s, k) = 0

\* the handlers registered now are members, and were members at every
\* dequeue since their Register send completed
RegisteredIsMember ==
    \A s \in Sinks : Registered(s) =>
        /\ s \in clients
        /\ \A k \in 1..Len(processed) :
             (\E i \in 1..Len(enq[s]) : enq[s][i].k <= k)
             => s \in processed[k].members

\* C18 - registration takes effect at the rendezvous: a handler whose
\* Register send has completed is in the membership set, and every
\* notification the hub dequeues from then on, until it receives that
\* handler's Unregister, gets enqueued on the handler's client.send
RegistrationTakesEffect ==
    /\ []RegisteredIsMember
    /\ \A s \in Sinks : Missed(s) ~> ~Missed(s)

\* C19 - shutdown handshake ordering: StartWebServer is at, or past, its
\* quitNotify send only when serviceTagChannel has received quitTags and
\* returned, and at or past its sleep only when serviceNotifyChannel has
\* received quitNotify and returned too; a task that has returned takes no
\* further tag, notification, register or unregister message
ShutdownOrdering ==
    [][/\ mpc' \in {"quitNotify", "sleep", "done"} => cpc' = "exited"
       /\ mpc' \in {"sleep", "done"} => hpc' = "exited"
       /\ (mpc = "quitTags" /\ mpc' # mpc)
          => (cpc = "select" /\ cpc' = "exited" /\ mpc' = "quitNotify")
       /\ (mpc = "quitNotify" /\ mpc' # mpc)
          => (hpc = "select" /\ hpc' = "exited" /\ mpc' = "sleep")
       /\ cpc = "exited"
          => /\ UNCHANGED <<cpc, ctag, incrCalls, laps, produced, notifSent>>
             /\ Len(tags') >= Len(tags)
       /\ hpc = "exited"
          => /\ UNCHANGED <<hpc, clients, processed, hmsg, enq>>
             /\ Len(notify') >= Len(notify)]_vars

\* the shutdown sequence has run to its end with an identifier left on
\* svr.tags and a client left registered
C19Witness ==
    /\ mpc = "done"
    /\ cpc = "exited"
    /\ hpc = "exited"
    /\ tags # <<>>
    /\ clients # {}

\* C20 - per-reader FIFO: of the two identifiers one reader connection
\* submitted, 10 and then 11, with another connection's identifiers sent in
\* between, the second is never ahead of the first: not on svr.tags, not in
\* the order serviceTagChannel takes them and calls IncrementLaps (when it
\* holds or has handled the second, the first was sent and is no longer on
\* svr.tags), not in the notifications it produces, not in the order the hub
\* fans them out, and not on any client's queue or transport
TagsOf(q) == [i \in 1..Len(q) |-> q[i].tag]
Mine(q) == SelectSeq(q, LAMBDA t : t \in KnownTags)
FirstTag == Atoi(FifoFirst).val
SecondTag == Atoi(FifoSecond).val
InSubmissionOrder(q) ==
    Mine(q) \in {<<>>, <<FirstTag>>, <<SecondTag>>, <<FirstTag, SecondTag>>}
Produced(t) == \E j \in 1..Len(produced) : produced[j].tag = t

PerReaderFifo ==
    /\ InSubmissionOrder(tags)
    /\ \/ rtag[FifoReader] = SecondTag
       \/ \E i \in 1..Len(tags) : tags[i] = SecondTag
       \/ ctag = SecondTag
       \/ Produced(SecondTag)
       => tagsSent[FifoReader] >= 1
    /\ (ctag = SecondTag \/ Produced(SecondTag))
       => /\ tagsSent[FifoReader] = 2
          /\ \A i \in 1..Len(tags) : tags[i] # FirstTag
    /\ ctag = FirstTag => ~Produced(SecondTag)
    /\ InSubmissionOrder(TagsOf(produced))
    /\ InSubmissionOrder(TagsOf(Notifs(processed)))
    /\ InSubmissionOrder(TagsOf(notify))
    /\ \A s \in Sinks :
         /\ InSubmissionOrder(TagsOf(Notifs(enq[s])))
         /\ InSubmissionOrder(TagsOf(written[s]))

\* both identifiers of the one connection went through, two identifiers of
\* the other connection having been taken as well, and a client that
\* registered in time has both notifications on its transport
C20Witness ==
    /\ tagsSent[FifoReader] = 2
    /\ tagsSent["r2"] = 2
    /\ incrCalls = 4
    /\ TagsOf(Notifs(processed)) = <<FirstTag, SecondTag>>
    /\ TagsOf(written["s1"]) = <<FirstTag, SecondTag>>

====
